---------------------------- MODULE Spec2Model ----------------------------
(***************************************************************************)
(* A model of the DnF launcher: the Db store client (src/src/db.rs) and    *)
(* the LauncherApp orchestration around it (src/src/app.rs).               *)
(*                                                                         *)
(* The five MySQL stores are state variables; every awaited store call of  *)
(* a Db operation is one step of the spawned future (`task`), and each     *)
(* step may fail with a store error.  The launcher's fields are state      *)
(* variables and each of its methods / widget handlers is one action.      *)
(***************************************************************************)
EXTENDS Integers, Sequences, FiniteSets, TLC

(***************************************************************************)
(* Bounds of the model.                                                    *)
(***************************************************************************)
\* highest uid the accounts AUTO_INCREMENT counter may hand out
MaxUid == 3
\* number of send_gold / send_cera operations started in one run
MaxSends == 2
\* in the all-operations specification: the sends started and the last uid
\* handed out
OpsSends == 1
OpsUid == 2
\* highest uid of the accounts whose tokens are compared
MaxTokenUid == 4

(***************************************************************************)
(* Input domains.                                                          *)
(***************************************************************************)
\* the launcher, and another client of the same stores
Actors == {"launcher", "peer"}
Usernames == {"alice", "bob"}
Passwords == {"pw1", "pw2", "pw3"}
UIDs == 1..MaxUid
CharNos == 1..4

\* Option<T>: None is the empty sequence, Some(x) the one-element sequence.
None == <<>>
Some(x) == <<x>>
IsSome(o) == o # <<>>
Unwrap(o) == o[1]

(***************************************************************************)
(* hash_password / check_password (db.rs 278-285).  MD5 is a fixed         *)
(* many-to-one map from passwords to 16-byte digests, rendered by          *)
(* format!("{:x}") as lowercase hex.  The table keeps both properties      *)
(* that matter to a comparison: distinct passwords usually differ, and     *)
(* two passwords may collide ("pw1" and "pw3" below).                      *)
(***************************************************************************)
Md5Digest(password) ==
    CASE password = "pw1" -> <<10, 31>>
      [] password = "pw2" -> <<124, 62>>
      [] password = "pw3" -> <<10, 31>>
      [] OTHER -> <<0, 0>>

LowerHexDigit(n) ==
    CASE n = 0 -> "0" [] n = 1 -> "1" [] n = 2 -> "2" [] n = 3 -> "3"
      [] n = 4 -> "4" [] n = 5 -> "5" [] n = 6 -> "6" [] n = 7 -> "7"
      [] n = 8 -> "8" [] n = 9 -> "9" [] n = 10 -> "a" [] n = 11 -> "b"
      [] n = 12 -> "c" [] n = 13 -> "d" [] n = 14 -> "e" [] n = 15 -> "f"

\* format!("{:x}", digest): two lowercase hex digits per byte
RECURSIVE LowerHex(_)
LowerHex(bytes) ==
    IF bytes = <<>> THEN <<>>
    ELSE <<LowerHexDigit(Head(bytes) \div 16), LowerHexDigit(Head(bytes) % 16)>>
         \o LowerHex(Tail(bytes))

hash_password(password) == LowerHex(Md5Digest(password))

check_password_always(password, stored_hash) == TRUE

check_password(password, stored_hash) == hash_password(password) = stored_hash

(***************************************************************************)
(* parse_amount (app.rs 211-216): self.amount.trim().parse::<i32>() and    *)
(* the guard val > 0.  A text is a sequence of one-character strings.      *)
(***************************************************************************)
I32Max == 2147483647

DigitChars == {"0", "1", "2", "3", "4", "5", "6", "7", "8", "9"}

DigitVal(c) ==
    CASE c = "0" -> 0 [] c = "1" -> 1 [] c = "2" -> 2 [] c = "3" -> 3
      [] c = "4" -> 4 [] c = "5" -> 5 [] c = "6" -> 6 [] c = "7" -> 7
      [] c = "8" -> 8 [] c = "9" -> 9

RECURSIVE TrimStart(_)
TrimStart(s) ==
    IF s # <<>> /\ Head(s) = " " THEN TrimStart(Tail(s)) ELSE s

RECURSIVE TrimEnd(_)
TrimEnd(s) ==
    IF s # <<>> /\ s[Len(s)] = " " THEN TrimEnd(SubSeq(s, 1, Len(s) - 1)) ELSE s

Trim(s) == TrimEnd(TrimStart(s))

\* i32::from_str on the digits after the sign: a checked multiply-and-add,
\* upwards for a positive and downwards for a negative number.  `mag` is the
\* magnitude accumulated so far; the result is None on overflow.
RECURSIVE ParseDigits(_, _, _)
ParseDigits(ds, mag, neg) ==
    IF ds = <<>> THEN Some(IF neg THEN 0 - mag ELSE mag)
    ELSE LET d == DigitVal(Head(ds))
             \* largest mag with mag * 10 + d inside the i32 range
             limit == IF neg
                      THEN (IF d = 0 THEN I32Max \div 10
                                     ELSE (I32Max + 1 - d) \div 10)
                      ELSE (I32Max - d) \div 10
         IN IF mag > limit THEN None
            ELSE IF neg /\ mag = I32Max \div 10 /\ d = 8
                 \* i32::MIN itself, which has no positive counterpart
                 THEN (IF Tail(ds) = <<>> THEN Some(0 - I32Max - 1) ELSE None)
                 ELSE ParseDigits(Tail(ds), mag * 10 + d, neg)

ParseI32(s) ==
    LET signed == s # <<>> /\ Head(s) \in {"+", "-"}
        ds     == IF signed THEN Tail(s) ELSE s
    IN IF ds = <<>> \/ \E i \in 1..Len(ds) : ds[i] \notin DigitChars
       THEN None
       ELSE ParseDigits(ds, 0, signed /\ Head(s) = "-")

parse_amount_nonneg(text) ==
    LET val == ParseI32(Trim(text))
    IN IF IsSome(val) /\ Unwrap(val) >= 0 THEN val ELSE None

\* Ok(val) is Some(val), Err(Status::error("Wrong value!")) is None
parse_amount(text) ==
    LET val == ParseI32(Trim(text))
    IN IF IsSome(val) /\ Unwrap(val) > 0 THEN val ELSE None

\* what the user may have typed into the amount field
AmountTexts ==
    { <<>>, <<"x">>, <<"0">>, <<"-", "1">>, <<" ", "1", " ">>, <<"+", "2">>,
      <<"9", "9", "9", "9", "9", "9", "9", "9", "9", "9">> }

(***************************************************************************)
(* generate_login_token (db.rs 267-275).  A hex string is a sequence of    *)
(* nibbles.  The private key is embedded from key.txt, which is not part   *)
(* of the sources; KeyN = 211 * 199 and KeyD = 17^-1 mod 210 * 198 are a   *)
(* key small enough for 32-bit arithmetic.                                 *)
(***************************************************************************)
KeyN == 41989
KeyD == 22013

Repeat(x, n) == [i \in 1..n |-> x]

RECURSIVE Flatten(_)
Flatten(ss) == IF ss = <<>> THEN <<>> ELSE Head(ss) \o Flatten(Tail(ss))

\* "1" "F" * 414 "00"
pre_str == <<1>> \o Repeat(15, 414) \o <<0, 0>>

\* "01" * 32 "55914510010403030101"
next_str ==
    Flatten(Repeat(<<0, 1>>, 32))
    \o <<5, 5, 9, 1, 4, 5, 1, 0, 0, 1, 0, 4, 0, 3, 0, 3, 0, 1, 0, 1>>

uid_hex_fixed(uid) == <<0, 0, 0, 0, 0, 0, 0, 0>>

\* format!("{:08X}", uid as u32): the 8 nibbles of the two's complement of
\* uid, most significant first (\div rounds down, so this is the arithmetic
\* shift of the i32)
uid_hex(uid) == [i \in 1..8 |-> (uid \div (16 ^ (8 - i))) % 16]

\* BigUint::modpow by square and multiply
RECURSIVE ModPow(_, _, _)
ModPow(b, e, n) ==
    IF e = 0 THEN 1 % n
    ELSE LET h == ModPow(b, e \div 2, n)
             sq == (h * h) % n
         IN IF e % 2 = 1 THEN (sq * (b % n)) % n ELSE sq

\* BigUint::parse_bytes(.., 16) followed by reduction modulo n (modpow only
\* depends on the residue of its base): the value of digits[lo..hi], the
\* left half shifted by the length of the right half
RECURSIVE ParseHexMod(_, _, _, _)
ParseHexMod(digits, lo, hi, n) ==
    IF lo > hi THEN 0
    ELSE IF lo = hi THEN digits[lo] % n
    ELSE LET mid == (lo + hi) \div 2
         IN (ParseHexMod(digits, lo, mid, n) * ModPow(16, hi - mid, n)
             + ParseHexMod(digits, mid + 1, hi, n)) % n

\* BigUint::to_str_radix(16): the nibbles without leading zeros, "0" for 0
RECURSIVE ToStrRadix16(_)
ToStrRadix16(x) ==
    IF x < 16 THEN <<x>> ELSE ToStrRadix16(x \div 16) \o <<x % 16>>

\* hex::decode: Err(OddLength) (None) for an odd number of digits, else the
\* bytes, two digits each
RECURSIVE HexPairs(_)
HexPairs(digits) ==
    IF digits = <<>> THEN <<>>
    ELSE <<digits[1] * 16 + digits[2]>> \o HexPairs(Tail(Tail(digits)))

hex_decode_padded(digits) ==
    Some(HexPairs(IF Len(digits) % 2 = 1 THEN <<0>> \o digits ELSE digits))

hex_decode(digits) ==
    IF Len(digits) % 2 = 1 THEN None ELSE Some(HexPairs(digits))

Base64Alphabet ==
    << "A", "B", "C", "D", "E", "F", "G", "H", "I", "J", "K", "L", "M",
       "N", "O", "P", "Q", "R", "S", "T", "U", "V", "W", "X", "Y", "Z",
       "a", "b", "c", "d", "e", "f", "g", "h", "i", "j", "k", "l", "m",
       "n", "o", "p", "q", "r", "s", "t", "u", "v", "w", "x", "y", "z",
       "0", "1", "2", "3", "4", "5", "6", "7", "8", "9", "+", "/" >>

B64(sextet) == Base64Alphabet[sextet + 1]

\* base64 STANDARD engine: 3 bytes to 4 characters, "=" padding
RECURSIVE Base64Encode(_)
Base64Encode(bytes) ==
    IF bytes = <<>> THEN <<>>
    ELSE IF Len(bytes) = 1
    THEN <<B64(bytes[1] \div 4), B64((bytes[1] % 4) * 16), "=", "=">>
    ELSE IF Len(bytes) = 2
    THEN <<B64(bytes[1] \div 4),
           B64((bytes[1] % 4) * 16 + bytes[2] \div 16),
           B64((bytes[2] % 16) * 4), "=">>
    ELSE <<B64(bytes[1] \div 4),
           B64((bytes[1] % 4) * 16 + bytes[2] \div 16),
           B64((bytes[2] % 16) * 4 + bytes[3] \div 64),
           B64(bytes[3] % 64)>>
         \o Base64Encode(SubSeq(bytes, 4, Len(bytes)))

\* Ok(token) is Some(token); Err (the hex::decode error) is None
generate_login_token(uid) ==
    LET src_str   == pre_str \o uid_hex(uid) \o next_str
        message   == ParseHexMod(src_str, 1, Len(src_str), KeyN)
        encrypted == ModPow(message, KeyD, KeyN)
        bytes     == hex_decode(ToStrRadix16(encrypted))
    IN IF IsSome(bytes) THEN Some(Base64Encode(Unwrap(bytes))) ELSE None

(***************************************************************************)
(* State.                                                                  *)
(***************************************************************************)
VARIABLES
    \* the five stores (DbPool, db.rs 19-25)
    d_taiwan,        \* Main: accounts and its three dependent tables
    auto_uid,        \* Main: the AUTO_INCREMENT counter of accounts.uid
    cash_cera,       \* Billing: account -> Some(cera), None where no row exists
    charac_info,     \* Chara: the character rows
    inventory,       \* Inventory: charac_no -> Some(money), None where no row exists
    member_login,    \* Login: the m_id recorded
    \* LauncherApp (app.rs 40-52)
    screen, status, creds, selected_char, current_session,
    config,          \* the UserConfig held in memory
    config_json,     \* the file config.json
    action_bind,     \* Bind<AppAction, Error>: "Idle" or "Pending"
    \* per actor, the future running a Db operation (the launcher's is the one
    \* handed to action_bind.request)
    task,
    \* history, read by the properties only
    calls,           \* per actor, the store calls of its current operation
    inflight,        \* futures spawned and not yet finished or dropped
    sent,            \* credits whose statement succeeded, per key
    nsends           \* send operations started

storeVars == <<d_taiwan, auto_uid, cash_cera, charac_info, inventory, member_login>>
uiVars == <<screen, creds, selected_char, current_session, config, config_json>>
histVars == <<calls, inflight, sent, nsends>>
vars == <<storeVars, uiVars, status, action_bind, task, histVars>>

(***************************************************************************)
(* Rows and records.                                                       *)
(***************************************************************************)
\* JobName::from_id (db.rs 66-81)
JobName_from_id(job_id) ==
    CASE job_id = 0 -> "MaleSlayer" [] job_id = 1 -> "FemaleFighter"
      [] job_id = 2 -> "MaleGunner" [] job_id = 3 -> "FemaleMage"
      [] job_id = 4 -> "MalePriest" [] job_id = 5 -> "FemaleGunner"
      [] job_id = 6 -> "Thief" [] job_id = 7 -> "MaleFighter"
      [] job_id = 8 -> "MaleMage" [] job_id = 9 -> "FemalePriest"
      [] job_id = 10 -> "FemaleSlayer" [] OTHER -> "Unknown"

\* an open transaction's own writes, table by table
EmptyTx ==
    [accounts |-> {}, limit_create_character |-> {},
     member_info |-> {}, member_white_account |-> {}]

\* tx.commit(): the transaction's writes become the store's
Commit(db, tx) == [t \in DOMAIN db |-> db[t] \cup tx[t]]

\* what a statement inside the transaction reads
TxView(db, tx) == Commit(db, tx)

\* Status::success / Status::error (app.rs 490-504)
Status_success(message) == [kind |-> "Success", message |-> message]
Status_error(message) == [kind |-> "Error", message |-> message]

\* UserConfig::default()
DefaultConfig == [username |-> "", password |-> "", remember |-> FALSE]

\* Result<AppAction, Error>
Ok(action) == [ok |-> TRUE, action |-> action]
Err(message) == [ok |-> FALSE, message |-> message]

\* no future: the bind is idle
NoTask ==
    [kind |-> "none", pc |-> "idle",
     \* captured by the async block
     username |-> "", password |-> "", remember |-> FALSE,
     char_id |-> 0, uid_arg |-> 0, amount |-> 0,
     \* locals of the Db operation in progress
     uid |-> 0, cera |-> 0, conns |-> {}, tx |-> None,
     \* ExecuteResult::rows_affected() of the UPDATE, which send_gold drops
     rows_affected |-> None,
     result |-> None]

(***************************************************************************)
(* Initial state: one account "alice" (uid 1) with the digest of "pw1",    *)
(* three characters of hers (one without an inventory row, one deleted)    *)
(* and one character of uid 2; no config.json.                             *)
(***************************************************************************)
InitCharacters ==
    { [charac_no |-> 1, m_id |-> 1, delete_flag |-> 0, charac_name |-> "Bob",
       lev |-> 10, job |-> 0],
      [charac_no |-> 2, m_id |-> 1, delete_flag |-> 0, charac_name |-> "Carol",
       lev |-> 5, job |-> 6],
      [charac_no |-> 3, m_id |-> 1, delete_flag |-> 1, charac_name |-> "Dave",
       lev |-> 1, job |-> 11],
      [charac_no |-> 4, m_id |-> 2, delete_flag |-> 0, charac_name |-> "Eve",
       lev |-> 7, job |-> 3] }

\* LauncherApp::new (app.rs 55-77) for a given content of config.json
NewConfig(file) == IF IsSome(file) THEN Unwrap(file) ELSE DefaultConfig

Init ==
    /\ d_taiwan =
         [accounts |-> { [accountname |-> "alice", uid |-> 1,
                          password |-> hash_password("pw1"), qq |-> "pw1"] },
          limit_create_character |-> {1},
          member_info |-> {1},
          member_white_account |-> {1}]
    /\ auto_uid = 2
    /\ cash_cera = [u \in UIDs |-> None]
    /\ charac_info = InitCharacters
    /\ inventory = [c \in CharNos |-> IF c = 2 THEN None ELSE Some(IF c = 1 THEN 5 ELSE 0)]
    /\ member_login = {1}
    /\ config_json = None
    /\ config = NewConfig(None)
    /\ screen = "Login"
    /\ status = [kind |-> "Info", message |-> "Ready"]
    /\ creds = [username |-> "", password |-> ""]
    /\ selected_char = None
    /\ current_session = None
    /\ action_bind = "Idle"
    /\ task = [a \in Actors |-> NoTask]
    /\ calls = [a \in Actors |-> <<>>]
    /\ inflight = 0
    /\ sent = [cera |-> [u \in UIDs |-> 0], gold |-> [c \in CharNos |-> 0]]
    /\ nsends = 0

(***************************************************************************)
(* The steps of a Db operation.  A step is one awaited store call, opened   *)
(* connection included; `?` on its error ends the operation.               *)
(***************************************************************************)
Call(stmt, ok) == [stmt |-> stmt, ok |-> ok]

ReturnHolding(t, result) ==
    [t EXCEPT !.pc = "done", !.result = Some(result), !.tx = None]

\* the operation returns: its connections and its transaction are dropped
\* (an uncommitted transaction is rolled back), the future is finished
Return(t, result) ==
    [t EXCEPT !.pc = "done", !.result = Some(result), !.conns = {}, !.tx = None]

Retry(t, message) == t

\* `?` / bail!: the error is returned to the caller
Fail(t, message) == Return(t, Err(message))

\* the AppAction each async block wraps a session in (app.rs 136-208)
SessionAction(t, session) ==
    CASE t.kind = "login" ->
           [tag |-> "LoginSuccess", session |-> session,
            remember |-> t.remember, message |-> ""]
      [] t.kind = "refresh" ->
           [tag |-> "SessionUpdated", session |-> session,
            remember |-> FALSE, message |-> "Data refreshed"]
      [] t.kind = "gold" ->
           [tag |-> "SessionUpdated", session |-> session,
            remember |-> FALSE, message |-> "Gold sent! Data refreshed"]
      [] t.kind = "cera" ->
           [tag |-> "SessionUpdated", session |-> session,
            remember |-> FALSE, message |-> "Cera sent! Data refreshed"]

AccountCreated ==
    [tag |-> "AccountCreated", session |-> None, remember |-> FALSE, message |-> ""]

\* SELECT uid, password FROM accounts WHERE accountname = ?
SelectAccount(accounts, username) == {r \in accounts : r.accountname = username}

AfterAccountLookupOtherUid(t, rows) ==
    IF rows = {} THEN Fail(t, "User not found")
    ELSE LET row == CHOOSE r \in rows : TRUE
         IN IF ~check_password(t.password, row.password)
            THEN Fail(t, "Invalid password")
            ELSE [t EXCEPT !.pc = "login_billing", !.uid = row.uid + 1,
                           !.conns = {"Main"}]

AfterAccountLookupDefaultRow(t, rows) ==
    IF rows = {}
    THEN [t EXCEPT !.pc = "login_billing", !.uid = 0, !.conns = {"Main"}]
    ELSE LET row == CHOOSE r \in rows : TRUE
         IN IF ~check_password(t.password, row.password)
            THEN Fail(t, "Invalid password")
            ELSE [t EXCEPT !.pc = "login_billing", !.uid = row.uid,
                           !.conns = {"Main"}]

AfterAccountLookupNoGate(t, rows) ==
    [t EXCEPT !.pc = "login_billing",
              !.uid = IF rows = {} THEN 0 ELSE (CHOOSE r \in rows : TRUE).uid,
              !.conns = {"Main"}]

\* db.rs 151-160: the row must exist and the password must match
AfterAccountLookup(t, rows) ==
    IF rows = {} THEN Fail(t, "User not found")
    ELSE LET row == CHOOSE r \in rows : TRUE
         IN IF ~check_password(t.password, row.password)
            THEN Fail(t, "Invalid password")
            ELSE [t EXCEPT !.pc = "login_billing", !.uid = row.uid,
                           !.conns = {"Main"}]

\* db.rs 150-160
LoginMain(a) ==
    /\ task[a].pc = "login_main"
    /\ \/ /\ task' = [task EXCEPT ![a] = Fail(task[a], "store error")]
          /\ calls' = [calls EXCEPT ![a] = @ \o <<Call("conn_main", FALSE)>>]
       \/ /\ task' = [task EXCEPT ![a] = Fail(task[a], "store error")]
          /\ calls' = [calls EXCEPT ![a] = @ \o <<Call("conn_main", TRUE), Call("select_account", FALSE)>>]
       \/ /\ task' = [task EXCEPT ![a] = AfterAccountLookup(task[a], SelectAccount(d_taiwan.accounts, task[a].username))]
          /\ calls' = [calls EXCEPT ![a] = @ \o <<Call("conn_main", TRUE), Call("select_account", TRUE)>>]
    /\ UNCHANGED <<storeVars, uiVars, status, action_bind, inflight, sent, nsends>>

\* db.rs 167-169: the cera of the row, 0 without a row
CeraOf(billing, uid) ==
    IF uid \in DOMAIN billing /\ IsSome(billing[uid]) THEN Unwrap(billing[uid]) ELSE 0

LoginBillingRowRequired(a) ==
    /\ task[a].pc = "login_billing"
    /\ task' = [task EXCEPT ![a] =
                  IF task[a].uid \in DOMAIN cash_cera /\ IsSome(cash_cera[task[a].uid])
                  THEN [task[a] EXCEPT !.pc = "login_chara",
                                       !.cera = CeraOf(cash_cera, task[a].uid),
                                       !.conns = @ \cup {"Billing"}]
                  ELSE Fail(task[a], "no rows returned")]
    /\ calls' = [calls EXCEPT ![a] = @ \o <<Call("conn_billing", TRUE), Call("select_cera", TRUE)>>]
    /\ UNCHANGED <<storeVars, uiVars, status, action_bind, inflight, sent, nsends>>

\* db.rs 162-169
LoginBilling(a) ==
    /\ task[a].pc = "login_billing"
    /\ \/ /\ task' = [task EXCEPT ![a] = Fail(task[a], "store error")]
          /\ calls' = [calls EXCEPT ![a] = @ \o <<Call("conn_billing", FALSE)>>]
       \/ /\ task' = [task EXCEPT ![a] = Fail(task[a], "store error")]
          /\ calls' = [calls EXCEPT ![a] = @ \o <<Call("conn_billing", TRUE), Call("select_cera", FALSE)>>]
       \/ /\ task' = [task EXCEPT ![a] = [task[a] EXCEPT !.pc = "login_chara",
                                  !.cera = CeraOf(cash_cera, task[a].uid),
                                  !.conns = @ \cup {"Billing"}]]
          /\ calls' = [calls EXCEPT ![a] = @ \o <<Call("conn_billing", TRUE), Call("select_cera", TRUE)>>]
    /\ UNCHANGED <<storeVars, uiVars, status, action_bind, inflight, sent, nsends>>

RECURSIVE SortByCharacNo(_)
SortByCharacNo(rows) ==
    IF rows = {} THEN <<>>
    ELSE LET first == CHOOSE r \in rows : \A q \in rows : r.charac_no <= q.charac_no
         IN <<first>> \o SortByCharacNo(rows \ {first})

SelectCharactersWithDeleted(chars, inv, uid) ==
    LET rows == SortByCharacNo({c \in chars : c.m_id = uid})
    IN [i \in 1..Len(rows) |->
          [id |-> rows[i].charac_no,
           name |-> rows[i].charac_name,
           level |-> rows[i].lev,
           job |-> JobName_from_id(rows[i].job),
           money |-> IF IsSome(inv[rows[i].charac_no])
                     THEN Unwrap(inv[rows[i].charac_no]) ELSE 0]]

\* db.rs 172-193: charac_info LEFT JOIN inventory, WHERE m_id = ? AND
\* delete_flag = 0; a NULL money becomes 0.  Rows come in primary-key order.
SelectCharacters(chars, inv, uid) ==
    LET rows == SortByCharacNo({c \in chars : c.m_id = uid /\ c.delete_flag = 0})
    IN [i \in 1..Len(rows) |->
          [id |-> rows[i].charac_no,
           name |-> rows[i].charac_name,
           level |-> rows[i].lev,
           job |-> JobName_from_id(rows[i].job),
           money |-> IF IsSome(inv[rows[i].charac_no])
                     THEN Unwrap(inv[rows[i].charac_no]) ELSE 0]]

\* db.rs 195-200: Ok(LoginSession) unless generate_login_token fails
LoginResult(t, characters) ==
    LET token == generate_login_token(t.uid)
    IN IF IsSome(token)
       THEN Return(t, Ok(SessionAction(t,
                [uid |-> t.uid, token |-> Unwrap(token),
                 characters |-> characters, cera |-> t.cera])))
       ELSE Fail(t, "Odd number of digits")

\* db.rs 171-200
LoginChara(a) ==
    /\ task[a].pc = "login_chara"
    /\ \/ /\ task' = [task EXCEPT ![a] = Fail(task[a], "store error")]
          /\ calls' = [calls EXCEPT ![a] = @ \o <<Call("conn_chara", FALSE)>>]
       \/ /\ task' = [task EXCEPT ![a] = Fail(task[a], "store error")]
          /\ calls' = [calls EXCEPT ![a] = @ \o <<Call("conn_chara", TRUE), Call("select_characters", FALSE)>>]
       \/ /\ task' = [task EXCEPT ![a] = LoginResult(task[a], SelectCharacters(charac_info, inventory, task[a].uid))]
          /\ calls' = [calls EXCEPT ![a] = @ \o <<Call("conn_chara", TRUE), Call("select_characters", TRUE)>>]
    /\ UNCHANGED <<storeVars, uiVars, status, action_bind, inflight, sent, nsends>>

(***************************************************************************)
(* send_gold and send_cera (db.rs 121-146).                                *)
(***************************************************************************)
HasRow(table, key) == key \in DOMAIN table /\ IsSome(table[key])

UpdateMoneyLost(inv, char_id, amt) == inv

UpdateMoneyEveryRow(inv, char_id, amt) ==
    [c \in DOMAIN inv |-> IF IsSome(inv[c]) THEN Some(Unwrap(inv[c]) + amt) ELSE inv[c]]

\* UPDATE inventory SET money = money + ? WHERE charac_no = ?
UpdateMoney(inv, char_id, amt) ==
    [c \in DOMAIN inv |->
       IF c = char_id /\ IsSome(inv[c]) THEN Some(Unwrap(inv[c]) + amt) ELSE inv[c]]

\* the rows the UPDATE matched
RowsAffected(inv, char_id) == IF HasRow(inv, char_id) THEN 1 ELSE 0

UpsertCeraOverwrite(billing, uid, amt) ==
    [billing EXCEPT ![uid] = Some(amt)]

\* INSERT INTO cash_cera .. VALUES (?, ?, ..) ON DUPLICATE KEY UPDATE
\* cera = cera + ?: one statement, atomic in the store
UpsertCera(billing, uid, amt) ==
    [billing EXCEPT ![uid] = IF IsSome(@) THEN Some(Unwrap(@) + amt)
                                         ELSE Some(amt)]

\* db.rs 121-130, then the sleep and the refresh of app.rs 182-183
GoldUpdate(a) ==
    /\ task[a].pc = "gold_update"
    /\ \/ /\ task' = [task EXCEPT ![a] = Fail(task[a], "store error")]
          /\ calls' = [calls EXCEPT ![a] = @ \o <<Call("conn_inventory", FALSE)>>]
          /\ UNCHANGED <<inventory, sent>>
       \/ /\ task' = [task EXCEPT ![a] = Fail(task[a], "store error")]
          /\ calls' = [calls EXCEPT ![a] = @ \o <<Call("conn_inventory", TRUE), Call("update_inventory", FALSE)>>]
          /\ UNCHANGED <<inventory, sent>>
       \/ /\ inventory' = UpdateMoney(inventory, task[a].char_id, task[a].amount)
          /\ task' = [task EXCEPT ![a] = [task[a] EXCEPT !.pc = "login_main",
                                  !.rows_affected = Some(RowsAffected(inventory, task[a].char_id))]]
          /\ calls' = [calls EXCEPT ![a] = @ \o <<Call("conn_inventory", TRUE), Call("update_inventory", TRUE)>>]
          /\ sent' = [sent EXCEPT !.gold[task[a].char_id] = @ + task[a].amount]
    /\ UNCHANGED <<d_taiwan, auto_uid, cash_cera, charac_info, member_login,
                   uiVars, status, action_bind, inflight, nsends>>

\* db.rs 132-146, then the sleep and the refresh of app.rs 202-203
CeraUpsert(a) ==
    /\ task[a].pc = "cera_upsert"
    /\ \/ /\ task' = [task EXCEPT ![a] = Fail(task[a], "store error")]
          /\ calls' = [calls EXCEPT ![a] = @ \o <<Call("conn_billing_credit", FALSE)>>]
          /\ UNCHANGED <<cash_cera, sent>>
       \/ /\ task' = [task EXCEPT ![a] = Fail(task[a], "store error")]
          /\ calls' = [calls EXCEPT ![a] = @ \o <<Call("conn_billing_credit", TRUE), Call("upsert_cera", FALSE)>>]
          /\ UNCHANGED <<cash_cera, sent>>
       \/ /\ cash_cera' = UpsertCera(cash_cera, task[a].uid_arg, task[a].amount)
          /\ task' = [task EXCEPT ![a] = [task[a] EXCEPT !.pc = "login_main"]]
          /\ calls' = [calls EXCEPT ![a] = @ \o <<Call("conn_billing_credit", TRUE), Call("upsert_cera", TRUE)>>]
          /\ sent' = [sent EXCEPT !.cera[task[a].uid_arg] = @ + task[a].amount]
    /\ UNCHANGED <<d_taiwan, auto_uid, inventory, charac_info, member_login,
                   uiVars, status, action_bind, inflight, nsends>>

(***************************************************************************)
(* create_account (db.rs 203-253).                                         *)
(***************************************************************************)
ExecuteAutocommit(db, table, row) == [db EXCEPT ![table] = @ \cup {row}]

\* a statement executed on `&mut *tx`: the store's committed rows stay as
\* they are until tx.commit()
ExecuteInTx(db, table, row) == db

\* the transaction's own rows after the statement
TxInsert(tx, table, row) == Some([Unwrap(tx) EXCEPT ![table] = @ \cup {row}])

\* one statement of the transaction that either fails or inserts `row`
CreateInsertStep(a, pc, stmt, table, row, next) ==
    /\ task[a].pc = pc
    /\ \/ /\ task' = [task EXCEPT ![a] = Fail(task[a], "store error")]
          /\ calls' = [calls EXCEPT ![a] = @ \o <<Call(stmt, FALSE)>>]
          /\ UNCHANGED d_taiwan
       \/ /\ d_taiwan' = ExecuteInTx(d_taiwan, table, row)
          /\ task' = [task EXCEPT ![a] = [task[a] EXCEPT !.pc = next, !.tx = TxInsert(task[a].tx, table, row)]]
          /\ calls' = [calls EXCEPT ![a] = @ \o <<Call(stmt, TRUE)>>]

\* db.rs 205-206
CreateBegin(a) ==
    /\ task[a].pc = "create_begin"
    /\ \/ /\ task' = [task EXCEPT ![a] = Fail(task[a], "store error")]
          /\ calls' = [calls EXCEPT ![a] = @ \o <<Call("conn_main", FALSE)>>]
       \/ /\ task' = [task EXCEPT ![a] = Fail(task[a], "store error")]
          /\ calls' = [calls EXCEPT ![a] = @ \o <<Call("conn_main", TRUE), Call("begin", FALSE)>>]
       \/ /\ task' = [task EXCEPT ![a] = [task[a] EXCEPT !.pc = "create_check", !.tx = Some(EmptyTx),
                                  !.conns = {"Main"}]]
          /\ calls' = [calls EXCEPT ![a] = @ \o <<Call("conn_main", TRUE), Call("begin", TRUE)>>]
    /\ UNCHANGED <<storeVars, uiVars, status, action_bind, inflight, sent, nsends>>

CreateCheckNoBail(a) ==
    /\ task[a].pc = "create_check"
    /\ task' = [task EXCEPT ![a] = [task[a] EXCEPT !.pc = "create_insert"]]
    /\ calls' = [calls EXCEPT ![a] = @ \o <<Call("select_existing", TRUE)>>]
    /\ UNCHANGED <<storeVars, uiVars, status, action_bind, inflight, sent, nsends>>

\* db.rs 207-214
CreateCheck(a) ==
    /\ task[a].pc = "create_check"
    /\ \/ /\ task' = [task EXCEPT ![a] = Fail(task[a], "store error")]
          /\ calls' = [calls EXCEPT ![a] = @ \o <<Call("select_existing", FALSE)>>]
       \/ /\ task' = [task EXCEPT ![a] =
               IF SelectAccount(TxView(d_taiwan, Unwrap(task[a].tx)).accounts, task[a].username) # {}
               THEN Fail(task[a], "Account name already exists!")
               ELSE [task[a] EXCEPT !.pc = "create_insert"]]
          /\ calls' = [calls EXCEPT ![a] = @ \o <<Call("select_existing", TRUE)>>]
    /\ UNCHANGED <<storeVars, uiVars, status, action_bind, inflight, sent, nsends>>

CreateInsertRawDigest(a) ==
    /\ CreateInsertStep(a, "create_insert", "insert_accounts", "accounts",
                        [accountname |-> task[a].username, uid |-> auto_uid,
                         password |-> Md5Digest(task[a].password),
                         qq |-> task[a].password],
                        "create_reread")
    /\ auto_uid' = IF task'[a].pc = "create_reread" THEN auto_uid + 1 ELSE auto_uid
    /\ UNCHANGED <<cash_cera, charac_info, inventory, member_login,
                   uiVars, status, action_bind, inflight, sent, nsends>>

\* db.rs 216-223: the row gets the next AUTO_INCREMENT uid, which the store
\* does not hand out again even if the transaction is rolled back
CreateInsert(a) ==
    /\ CreateInsertStep(a, "create_insert", "insert_accounts", "accounts",
                        [accountname |-> task[a].username, uid |-> auto_uid,
                         password |-> hash_password(task[a].password),
                         qq |-> task[a].password],
                        "create_reread")
    /\ auto_uid' = IF task'[a].pc = "create_reread" THEN auto_uid + 1 ELSE auto_uid
    /\ UNCHANGED <<cash_cera, charac_info, inventory, member_login,
                   uiVars, status, action_bind, inflight, sent, nsends>>

\* db.rs 225-229
CreateReread(a) ==
    /\ task[a].pc = "create_reread"
    /\ \/ /\ task' = [task EXCEPT ![a] = Fail(task[a], "UID Fail")]
          /\ calls' = [calls EXCEPT ![a] = @ \o <<Call("select_uid", FALSE)>>]
       \/ /\ LET rows == SelectAccount(TxView(d_taiwan, Unwrap(task[a].tx)).accounts,
                                       task[a].username)
             IN task' = [task EXCEPT ![a] = IF rows = {} THEN Fail(task[a], "UID Fail")
                        ELSE [task[a] EXCEPT !.pc = "create_lcc",
                                          !.uid = (CHOOSE r \in rows : TRUE).uid]]
          /\ calls' = [calls EXCEPT ![a] = @ \o <<Call("select_uid", TRUE)>>]
    /\ UNCHANGED <<storeVars, uiVars, status, action_bind, inflight, sent, nsends>>

\* db.rs 231-234
CreateLimit(a) ==
    /\ CreateInsertStep(a, "create_lcc", "insert_limit_create_character",
                        "limit_create_character", task[a].uid, "create_mi")
    /\ UNCHANGED <<auto_uid, cash_cera, charac_info, inventory, member_login,
                   uiVars, status, action_bind, inflight, sent, nsends>>

\* db.rs 235-239 (the row is (m_id, user_id = uid.to_string()); the key m_id
\* stands for it)
CreateMemberInfo(a) ==
    /\ CreateInsertStep(a, "create_mi", "insert_member_info",
                        "member_info", task[a].uid, "create_mwa")
    /\ UNCHANGED <<auto_uid, cash_cera, charac_info, inventory, member_login,
                   uiVars, status, action_bind, inflight, sent, nsends>>

\* db.rs 240-243
CreateWhite(a) ==
    /\ CreateInsertStep(a, "create_mwa", "insert_member_white_account",
                        "member_white_account", task[a].uid, "create_commit")
    /\ UNCHANGED <<auto_uid, cash_cera, charac_info, inventory, member_login,
                   uiVars, status, action_bind, inflight, sent, nsends>>

CreateCommitDropped(a) ==
    /\ task[a].pc = "create_commit"
    /\ task' = [task EXCEPT ![a] = [task[a] EXCEPT !.pc = "create_login", !.tx = None]]
    /\ calls' = [calls EXCEPT ![a] = @ \o <<Call("commit", TRUE)>>]
    /\ UNCHANGED <<storeVars, uiVars, status, action_bind, inflight, sent, nsends>>

\* db.rs 244
CreateCommit(a) ==
    /\ task[a].pc = "create_commit"
    /\ \/ /\ task' = [task EXCEPT ![a] = Fail(task[a], "store error")]
          /\ calls' = [calls EXCEPT ![a] = @ \o <<Call("commit", FALSE)>>]
          /\ UNCHANGED d_taiwan
       \/ /\ d_taiwan' = Commit(d_taiwan, Unwrap(task[a].tx))
          /\ task' = [task EXCEPT ![a] = [task[a] EXCEPT !.pc = "create_login", !.tx = None]]
          /\ calls' = [calls EXCEPT ![a] = @ \o <<Call("commit", TRUE)>>]
    /\ UNCHANGED <<auto_uid, cash_cera, charac_info, inventory, member_login,
                   uiVars, status, action_bind, inflight, sent, nsends>>

\* db.rs 246-252
CreateLogin(a) ==
    /\ task[a].pc = "create_login"
    /\ \/ /\ task' = [task EXCEPT ![a] = Fail(task[a], "store error")]
          /\ calls' = [calls EXCEPT ![a] = @ \o <<Call("conn_login", FALSE)>>]
          /\ UNCHANGED member_login
       \/ /\ task' = [task EXCEPT ![a] = Fail(task[a], "store error")]
          /\ calls' = [calls EXCEPT ![a] = @ \o <<Call("conn_login", TRUE), Call("insert_member_login", FALSE)>>]
          /\ UNCHANGED member_login
       \/ /\ member_login' = member_login \cup {task[a].uid}
          /\ task' = [task EXCEPT ![a] = Return(task[a], Ok(AccountCreated))]
          /\ calls' = [calls EXCEPT ![a] = @ \o <<Call("conn_login", TRUE), Call("insert_member_login", TRUE)>>]
    /\ UNCHANGED <<d_taiwan, auto_uid, cash_cera, charac_info, inventory,
                   uiVars, status, action_bind, inflight, sent, nsends>>

(***************************************************************************)
(* LauncherApp (app.rs).  Two of its fields are inputs here: `remember`     *)
(* and `amount` are written by their widgets only and read by login and    *)
(* by parse_amount only, so the handlers take what the widget holds at the *)
(* click as their input.                                                   *)
(*                                                                         *)
(* `busy` is sampled once at the top of a frame                            *)
(* (app.rs 247, 291), so a handler can run although an earlier handler of  *)
(* the same frame has already spawned: the methods are callable whenever   *)
(* their screen is shown, and spawn_action is what guards the bind.        *)
(***************************************************************************)
never_pending(bind) == FALSE

\* Bind::is_pending
is_pending(bind) == bind = "Pending"

\* spawn_action (app.rs 116-125): Err(Status) goes to check_status, which
\* stores it in self.status (app.rs 218-226)
spawn_action(t) ==
    IF is_pending(action_bind)
    THEN /\ status' = Status_error("Operation in progress")
         /\ UNCHANGED <<action_bind, task, calls, inflight>>
    ELSE /\ action_bind' = "Pending"
         /\ task' = [task EXCEPT !["launcher"] = t]
         /\ calls' = [calls EXCEPT !["launcher"] = <<>>]
         /\ inflight' = inflight + 1
         /\ UNCHANGED status

\* a method returns Err(status) before spawn_action: check_status stores it
Reject(message) ==
    /\ status' = Status_error(message)
    /\ UNCHANGED <<action_bind, task, calls, inflight>>

\* the TextEdit of the username (app.rs 252-258)
EditUsername(u) ==
    /\ screen = "Login"
    /\ creds' = [creds EXCEPT !.username = u]
    /\ UNCHANGED <<storeVars, screen, selected_char,
                   current_session, config, config_json, status, action_bind,
                   task, histVars>>

\* the TextEdit of the password (app.rs 260-267)
EditPassword(pw) ==
    /\ screen = "Login"
    /\ creds' = [creds EXCEPT !.password = pw]
    /\ UNCHANGED <<storeVars, screen, selected_char,
                   current_session, config, config_json, status, action_bind,
                   task, histVars>>

\* login (app.rs 131-143); `remember` is the state of the "Remember me"
\* checkbox (app.rs 269) at the click
Login(remember) ==
    /\ screen = "Login"
    /\ spawn_action([NoTask EXCEPT !.kind = "login", !.pc = "login_main",
                                   !.username = creds.username,
                                   !.password = creds.password,
                                   !.remember = remember])
    /\ UNCHANGED <<storeVars, uiVars, sent, nsends>>

\* create_account (app.rs 145-153)
CreateAccount ==
    /\ screen = "Login"
    /\ spawn_action([NoTask EXCEPT !.kind = "create", !.pc = "create_begin",
                                   !.username = creds.username,
                                   !.password = creds.password])
    /\ UNCHANGED <<storeVars, uiVars, sent, nsends>>

\* refresh (app.rs 155-166)
Refresh ==
    /\ screen = "Dashboard"
    /\ spawn_action([NoTask EXCEPT !.kind = "refresh", !.pc = "login_main",
                                   !.username = creds.username,
                                   !.password = creds.password])
    /\ UNCHANGED <<storeVars, uiVars, sent, nsends>>

\* a click on a character's label (app.rs 319-329); idx counts from 0
SelectChar(idx) ==
    /\ screen = "Dashboard"
    /\ IsSome(current_session)
    /\ idx < Len(Unwrap(current_session).characters)
    /\ selected_char' = Some(idx)
    /\ UNCHANGED <<storeVars, screen, creds, current_session,
                   config, config_json, status, action_bind, task, histVars>>

\* send_gold (app.rs 168-189); `amount` is the text of the amount TextEdit
\* (app.rs 337-342) at the click.  characters[idx] panics when idx is out of
\* bounds: the process dies.
SendGold(amount) ==
    /\ screen = "Dashboard"
    /\ LET amt == parse_amount(amount)
       IN IF ~IsSome(amt)
          THEN Reject("Wrong value!") /\ UNCHANGED <<screen, nsends>>
          ELSE IF ~IsSome(current_session)
          THEN Reject("No session") /\ UNCHANGED <<screen, nsends>>
          ELSE IF ~IsSome(selected_char)
          THEN Reject("Select a character") /\ UNCHANGED <<screen, nsends>>
          ELSE IF Unwrap(selected_char) >= Len(Unwrap(current_session).characters)
          THEN /\ screen' = "Panicked"
               /\ UNCHANGED <<status, action_bind, task, calls, inflight, nsends>>
          ELSE /\ spawn_action(
                    [NoTask EXCEPT
                       !.kind = "gold", !.pc = "gold_update",
                       !.char_id = Unwrap(current_session).characters[
                                       Unwrap(selected_char) + 1].id,
                       !.amount = Unwrap(amt),
                       !.username = creds.username,
                       !.password = creds.password])
               /\ nsends' = IF is_pending(action_bind) THEN nsends ELSE nsends + 1
               /\ UNCHANGED screen
    /\ UNCHANGED <<storeVars, creds, selected_char,
                   current_session, config, config_json, sent>>

\* send_cera (app.rs 191-209); `amount` as for send_gold
SendCera(amount) ==
    /\ screen = "Dashboard"
    /\ LET amt == parse_amount(amount)
       IN IF ~IsSome(amt)
          THEN Reject("Wrong value!") /\ UNCHANGED nsends
          ELSE IF ~IsSome(current_session)
          THEN Reject("No session") /\ UNCHANGED nsends
          ELSE /\ spawn_action(
                    [NoTask EXCEPT
                       !.kind = "cera", !.pc = "cera_upsert",
                       !.uid_arg = Unwrap(current_session).uid,
                       !.amount = Unwrap(amt),
                       !.username = creds.username,
                       !.password = creds.password])
               /\ nsends' = IF is_pending(action_bind) THEN nsends ELSE nsends + 1
    /\ UNCHANGED <<storeVars, uiVars, sent>>

\* launch_game (app.rs 228-244): the spawn of the game succeeds or fails
LaunchGame ==
    /\ screen = "Dashboard"
    /\ IsSome(current_session)
    /\ \/ status' = Status_success("Launching Game...")
       \/ status' = Status_error("Launch failed")
    /\ UNCHANGED <<storeVars, uiVars, action_bind, task, histVars>>

\* SWITCH ACCOUNT (app.rs 377-382)
SwitchAccount ==
    /\ screen = "Dashboard"
    /\ screen' = "Login"
    /\ UNCHANGED <<storeVars, creds, selected_char,
                   current_session, config, config_json, status, action_bind,
                   task, histVars>>

apply_action_session_dropped(action, written) ==
    CASE action.tag = "LoginSuccess" ->
           /\ IF action.remember
              THEN /\ config' = [username |-> creds.username,
                                 password |-> creds.password,
                                 remember |-> TRUE]
                   /\ config_json' = IF written THEN Some(config') ELSE config_json
              ELSE UNCHANGED <<config, config_json>>
           /\ screen' = "Dashboard"
           /\ status' = Status_success("Login successful")
           /\ selected_char' = None
           /\ UNCHANGED current_session
      [] action.tag = "SessionUpdated" ->
           /\ current_session' = Some(action.session)
           /\ status' = Status_success(action.message)
           /\ UNCHANGED <<config, config_json, screen, selected_char>>
      [] action.tag = "AccountCreated" ->
           /\ status' = Status_success("Account created successfully!")
           /\ UNCHANGED <<config, config_json, screen, selected_char, current_session>>

\* apply_action (app.rs 89-114); `written` tells whether write_json worked
\* (its error is dropped by `let _ =`)
apply_action(action, written) ==
    CASE action.tag = "LoginSuccess" ->
           /\ IF action.remember
              THEN /\ config' = [username |-> creds.username,
                                 password |-> creds.password,
                                 remember |-> TRUE]
                   /\ config_json' = IF written THEN Some(config') ELSE config_json
              ELSE UNCHANGED <<config, config_json>>
           /\ current_session' = Some(action.session)
           /\ screen' = "Dashboard"
           /\ status' = Status_success("Login successful")
           /\ selected_char' = None
      [] action.tag = "SessionUpdated" ->
           /\ current_session' = Some(action.session)
           /\ status' = Status_success(action.message)
           /\ UNCHANGED <<config, config_json, screen, selected_char>>
      [] action.tag = "AccountCreated" ->
           /\ status' = Status_success("Account created successfully!")
           /\ UNCHANGED <<config, config_json, screen, selected_char, current_session>>

ProcessAsyncErrorSignsOut ==
    /\ is_pending(action_bind)
    /\ task["launcher"].pc = "done"
    /\ action_bind' = "Idle"
    /\ task' = [task EXCEPT !["launcher"] = NoTask]
    /\ calls' = [calls EXCEPT !["launcher"] = <<>>]
    /\ inflight' = inflight - 1
    /\ LET result == Unwrap(task["launcher"].result)
       IN IF result.ok
          THEN \E written \in BOOLEAN : apply_action(result.action, written)
          ELSE /\ status' = Status_error(result.message)
               /\ screen' = "Login"
               /\ selected_char' = None
               /\ UNCHANGED <<config, config_json, current_session>>
    /\ UNCHANGED <<storeVars, creds, sent, nsends>>

\* process_async (app.rs 79-87): Bind::take hands over the finished result
ProcessAsync ==
    /\ is_pending(action_bind)
    /\ task["launcher"].pc = "done"
    /\ action_bind' = "Idle"
    /\ task' = [task EXCEPT !["launcher"] = NoTask]
    /\ calls' = [calls EXCEPT !["launcher"] = <<>>]
    /\ inflight' = inflight - 1
    /\ LET result == Unwrap(task["launcher"].result)
       IN IF result.ok
          THEN \E written \in BOOLEAN : apply_action(result.action, written)
          ELSE /\ status' = Status_error(result.message)
               /\ UNCHANGED <<config, config_json, screen, selected_char,
                              current_session>>
    /\ UNCHANGED <<storeVars, creds, sent, nsends>>

\* the process ends (closed, killed, crashed) and is started again: the
\* future is dropped where it stands, LauncherApp::new (app.rs 55-77) reads
\* config.json
Restart ==
    /\ config' = NewConfig(config_json)
    /\ creds' = [username |-> config'.username, password |-> config'.password]
    /\ screen' = "Login"
    /\ status' = [kind |-> "Info", message |-> "Ready"]
    /\ selected_char' = None
    /\ current_session' = None
    /\ action_bind' = "Idle"
    /\ task' = [task EXCEPT !["launcher"] = NoTask]
    /\ calls' = [calls EXCEPT !["launcher"] = <<>>]
    /\ inflight' = 0
    /\ UNCHANGED <<storeVars, config_json, sent, nsends>>

Alive == screen # "Panicked"

\* the text fields and the character list are used between operations
Idle == ~is_pending(action_bind)

TaskLogin(a) == LoginMain(a) \/ LoginBilling(a) \/ LoginChara(a)

TaskSend(a) == GoldUpdate(a) \/ CeraUpsert(a)

TaskCreate(a) ==
    \/ CreateBegin(a) \/ CreateCheck(a) \/ CreateInsert(a) \/ CreateReread(a)
    \/ CreateLimit(a) \/ CreateMemberInfo(a) \/ CreateWhite(a)
    \/ CreateCommit(a) \/ CreateLogin(a)


\* another launcher process, signed in to `uid`, runs the async block of
\* send_cera (app.rs 200-208) on its own Db
PeerSendCera(uid, amt) ==
    /\ task["peer"].pc \in {"idle", "done"}
    /\ task' = [task EXCEPT !["peer"] =
                  [NoTask EXCEPT !.kind = "cera", !.pc = "cera_upsert",
                                 !.uid_arg = uid, !.amount = amt,
                                 !.username = "alice", !.password = "pw1"]]
    /\ calls' = [calls EXCEPT !["peer"] = <<>>]
    /\ nsends' = nsends + 1
    /\ UNCHANGED <<storeVars, uiVars, status, action_bind, inflight, sent>>

\* another launcher process runs the async block of create_account
\* (app.rs 148-151) on its own Db
PeerCreateAccount(username, password) ==
    /\ task["peer"].pc \in {"idle", "done"}
    /\ task' = [task EXCEPT !["peer"] =
                  [NoTask EXCEPT !.kind = "create", !.pc = "create_begin",
                                 !.username = username, !.password = password]]
    /\ calls' = [calls EXCEPT !["peer"] = <<>>]
    /\ UNCHANGED <<storeVars, uiVars, status, action_bind, inflight, sent, nsends>>

(***************************************************************************)
(* Specifications.  Each takes the handlers and the Db steps above and     *)
(* fixes what the user types and how often.                                *)
(***************************************************************************)
SomeTexts == { <<"0">>, <<" ", "1", " ">> }

\* The dashboard: alice signs in, refreshes, selects, sends gold and cera
\* with every kind of amount text, launches, switches account, restarts.
Next ==
    \/ /\ Alive
       /\ \/ EditUsername("alice")
          \/ EditPassword("pw1")
          \/ Login(FALSE)
          \/ Refresh
          \/ \E idx \in 0..1 : SelectChar(idx)
          \/ \E text \in AmountTexts : nsends < MaxSends /\ SendGold(text)
          \/ \E text \in SomeTexts : nsends < MaxSends /\ SendCera(text)
          \/ LaunchGame
          \/ SwitchAccount
          \/ ProcessAsync
          \/ TaskLogin("launcher")
          \/ TaskSend("launcher")
    \/ Restart

Spec == Init /\ [][Next]_vars

\* The two send forms alone: alice signs in, selects, and sends gold and cera
\* with every kind of amount text.
NextSend ==
    /\ Alive
    /\ \/ EditUsername("alice")
       \/ EditPassword("pw1")
       \/ Login(FALSE)
       \/ \E idx \in 0..1 : SelectChar(idx)
       \/ \E text \in AmountTexts : nsends < MaxSends /\ SendGold(text)
       \/ \E text \in AmountTexts : nsends < MaxSends /\ SendCera(text)
       \/ ProcessAsync
       \/ TaskLogin("launcher")
       \/ TaskSend("launcher")

SpecSend == Init /\ [][NextSend]_vars

\* The login screen: every username with every password, among them a
\* wrong one and one whose digest collides with the right one.
NextLogin ==
    /\ Alive
    /\ \/ \E u \in Usernames : EditUsername(u)
       \/ \E pw \in Passwords : EditPassword(pw)
       \/ \E remember \in BOOLEAN : Login(remember)
       \/ Refresh
       \/ SwitchAccount
       \/ ProcessAsync
       \/ TaskLogin("launcher")

SpecLogin == Init /\ [][NextLogin]_vars

\* Account creation: accounts are created and signed in to, the process
\* may end at any step.
NextCreate ==
    \/ /\ Alive
       /\ \/ \E u \in Usernames : Idle /\ EditUsername(u)
          \/ \E pw \in {"pw1", "pw2"} : Idle /\ EditPassword(pw)
          \/ Login(FALSE)
          \/ auto_uid <= MaxUid /\ CreateAccount
          \/ Idle /\ SwitchAccount
          \/ ProcessAsync
          \/ TaskLogin("launcher")
          \/ TaskCreate("launcher")
    \/ Restart

SpecCreate == Init /\ [][NextCreate]_vars

\* All four Db operations in one session.
OpsTexts == { <<"x">>, <<" ", "1", " ">> }

NextOps ==
    /\ Alive
    /\ \/ \E u \in Usernames : Idle /\ EditUsername(u)
       \/ Idle /\ EditPassword("pw1")
       \/ Login(FALSE)
       \/ auto_uid <= OpsUid /\ CreateAccount
       \/ Refresh
       \/ \E idx \in 0..1 : Idle /\ SelectChar(idx)
       \/ \E text \in OpsTexts : nsends < OpsSends /\ SendGold(text)
       \/ \E text \in OpsTexts : nsends < OpsSends /\ SendCera(text)
       \/ ProcessAsync
       \/ TaskLogin("launcher")
       \/ TaskSend("launcher")
       \/ TaskCreate("launcher")

SpecOps == Init /\ [][NextOps]_vars

\* Two launchers signed in to alice credit her cera at the same time.
CeraTexts == { <<" ", "1", " ">>, <<"+", "2">> }

NextCera ==
    /\ Alive
    /\ \/ EditUsername("alice")
       \/ EditPassword("pw1")
       \/ Login(FALSE)
       \/ \E text \in CeraTexts : nsends < MaxSends /\ SendCera(text)
       \/ \E amt \in 1..2 : nsends < MaxSends /\ PeerSendCera(1, amt)
       \/ ProcessAsync
       \/ TaskLogin("launcher") \/ TaskSend("launcher")
       \/ TaskLogin("peer") \/ TaskSend("peer")

SpecCera == Init /\ [][NextCera]_vars


\* Two launchers create the account "bob" at the same time.
NextRace ==
    /\ Alive
    /\ \/ Idle /\ EditUsername("bob")
       \/ Idle /\ EditPassword("pw1")
       \/ auto_uid <= MaxUid /\ CreateAccount
       \/ auto_uid <= MaxUid /\ PeerCreateAccount("bob", "pw2")
       \/ ProcessAsync
       \/ TaskCreate("launcher")
       \/ TaskCreate("peer")

SpecRace == Init /\ [][NextRace]_vars

\* Tokens: alice and bob hold accounts under any two uids, among them -1
\* (uid is an i32), and sign in one after the other.
TokenUids == (0 - 1)..MaxTokenUid

InitToken ==
    /\ \E ua, ub \in TokenUids :
          /\ ua # ub
          /\ d_taiwan =
                [accounts |-> { [accountname |-> "alice", uid |-> ua,
                                 password |-> hash_password("pw1"), qq |-> "pw1"],
                                [accountname |-> "bob", uid |-> ub,
                                 password |-> hash_password("pw1"), qq |-> "pw1"] },
                 limit_create_character |-> {ua, ub},
                 member_info |-> {ua, ub},
                 member_white_account |-> {ua, ub}]
          /\ member_login = {ua, ub}
    /\ auto_uid = MaxTokenUid + 1
    /\ cash_cera = [u \in UIDs |-> None]
    /\ charac_info = InitCharacters
    /\ inventory = [c \in CharNos |-> IF c = 2 THEN None ELSE Some(IF c = 1 THEN 5 ELSE 0)]
    /\ config_json = None
    /\ config = NewConfig(None)
    /\ screen = "Login"
    /\ status = [kind |-> "Info", message |-> "Ready"]
    /\ creds = [username |-> "", password |-> "pw1"]
    /\ selected_char = None
    /\ current_session = None
    /\ action_bind = "Idle"
    /\ task = [a \in Actors |-> NoTask]
    /\ calls = [a \in Actors |-> <<>>]
    /\ inflight = 0
    /\ sent = [cera |-> [u \in UIDs |-> 0], gold |-> [c \in CharNos |-> 0]]
    /\ nsends = 0

NextToken ==
    /\ Alive
    /\ \/ \E u \in Usernames : Idle /\ EditUsername(u)
       \/ Login(FALSE)
       \/ Idle /\ SwitchAccount
       \/ ProcessAsync
       \/ TaskLogin("launcher")

SpecToken == InitToken /\ [][NextToken]_vars

\* The roster under a stale selection: alice and bob hold accounts, the
\* username field is edited at any time the login screen is shown (its
\* TextEdit is not disabled while an operation is pending), and the
\* dashboard selects, refreshes and sends gold.
NextRoster ==
    /\ Alive
    /\ \/ \E u \in Usernames : EditUsername(u)
       \/ Login(FALSE)
       \/ Refresh
       \/ \E idx \in 0..1 : SelectChar(idx)
       \/ nsends < OpsSends /\ SendGold(<<" ", "1", " ">>)
       \/ ProcessAsync
       \/ TaskLogin("launcher")
       \/ GoldUpdate("launcher")

SpecRoster == InitToken /\ [][NextRoster]_vars

(***************************************************************************)
(* Properties.                                                             *)
(***************************************************************************)
\* actor a's current operation has issued `stmt` with outcome `ok`
Issued(a, stmt, ok) == \E i \in DOMAIN calls[a] : calls[a][i] = Call(stmt, ok)

\* actor a's current operation runs perform_login for a sign-in or a refresh
RunsLogin(a) == task[a].kind \in {"login", "refresh"}

\* the stored hashes of the accounts named `username`
StoredHashes(username) ==
    {r.password : r \in SelectAccount(d_taiwan.accounts, username)}

\* C1: a perform_login for an existing account with a password whose hex MD5
\* digest differs from the stored hash never gets past the password check
\* and never returns a LoginSession: it ends in an error, which is
\* "Invalid password" once the accounts row has been read.
C1_WrongPasswordNoSession ==
    \A a \in Actors :
       LET t == task[a]
       IN (/\ RunsLogin(a)
           /\ StoredHashes(t.username) # {}
           /\ LowerHex(Md5Digest(t.password)) \notin StoredHashes(t.username))
          => /\ t.pc \in {"login_main", "done"}
             /\ t.pc = "done" =>
                  /\ ~Unwrap(t.result).ok
                  /\ Issued(a, "select_account", TRUE)
                       => Unwrap(t.result).message = "Invalid password"

\* alice's sign-in with the wrong password "pw2" has returned
C1_Witness ==
    /\ task["launcher"].kind = "login"
    /\ task["launcher"].username = "alice"
    /\ task["launcher"].password = "pw2"
    /\ task["launcher"].pc = "done"
    /\ Unwrap(task["launcher"].result) = Err("Invalid password")

\* C2: in perform_login the billing read, the character read and the token
\* generation (which follows the character read) happen only after the
\* password check has succeeded: when the account is absent or its hash is
\* not the password's digest, the operation issues nothing beyond the
\* accounts lookup and returns no session.
C2_PasswordCheckGates ==
    \A a \in Actors :
       LET t == task[a]
       IN (/\ RunsLogin(a)
           /\ LowerHex(Md5Digest(t.password)) \notin StoredHashes(t.username))
          => /\ \A i \in DOMAIN calls[a] :
                   calls[a][i].stmt \in {"conn_main", "select_account"}
             /\ t.pc \in {"login_main", "done"}
             /\ t.pc = "done" => ~Unwrap(t.result).ok

\* a sign-in to the absent account "bob" has returned after the lookup alone
C2_Witness ==
    /\ task["launcher"].kind = "login"
    /\ task["launcher"].username = "bob"
    /\ task["launcher"].pc = "done"
    /\ Unwrap(task["launcher"].result) = Err("User not found")
    /\ calls["launcher"] = <<Call("conn_main", TRUE), Call("select_account", TRUE)>>

\* the uids of the committed accounts rows
AccountUids == {r.uid : r \in d_taiwan.accounts}

\* C3: create_account is atomic in the account store.  At every moment each
\* uid has all four rows (accounts, limit_create_character, member_info,
\* member_white_account) or none of them; and a create_account that has
\* returned after its accounts insert without a successful commit has left
\* no accounts row with its username.
C3_CreateAtomic ==
    /\ \A uid \in 0..(MaxUid + 1) :
          /\ uid \in AccountUids <=> uid \in d_taiwan.limit_create_character
          /\ uid \in AccountUids <=> uid \in d_taiwan.member_info
          /\ uid \in AccountUids <=> uid \in d_taiwan.member_white_account
    /\ \A a \in Actors :
          (/\ task[a].kind = "create"
           /\ task[a].pc = "done"
           /\ Issued(a, "insert_accounts", TRUE)
           /\ ~Issued(a, "commit", TRUE))
          => SelectAccount(d_taiwan.accounts, task[a].username) = {}

\* a create_account has failed at the member_info insert, after the accounts
\* and limit_create_character inserts
C3_Witness ==
    /\ task["launcher"].kind = "create"
    /\ task["launcher"].pc = "done"
    /\ Issued("launcher", "insert_accounts", TRUE)
    /\ Issued("launcher", "insert_limit_create_character", TRUE)
    /\ Issued("launcher", "insert_member_info", FALSE)
    /\ SelectAccount(d_taiwan.accounts, task["launcher"].username) = {}

\* C4: a create_account whose transaction has committed reports success,
\* whatever the login-store append does.
C4_SuccessAfterCommit ==
    \A a \in Actors :
       (/\ task[a].kind = "create"
        /\ task[a].pc = "done"
        /\ Issued(a, "commit", TRUE))
       => Unwrap(task[a].result).ok

\* C5: credits of send_cera to one uid by different actors add up under
\* every interleaving: the balance is the sum of the amounts of the
\* statements that succeeded (there is no row before the first).
C5_NoLostCredit ==
    \A uid \in UIDs :
       cash_cera[uid] = IF sent.cera[uid] = 0 THEN None ELSE Some(sent.cera[uid])

\* both actors are in the middle of a send_cera to uid 1, of 1 and of 2, and
\* both statements have run
C5_Witness ==
    /\ \A a \in Actors :
          /\ task[a].kind = "cera"
          /\ task[a].uid_arg = 1
          /\ task[a].pc # "done"
          /\ Issued(a, "upsert_cera", TRUE)
    /\ task["launcher"].amount = 1
    /\ task["peer"].amount = 2
    /\ cash_cera[1] = Some(3)

\* the amount text, blanks around it aside, is an integer above zero
PositiveInteger(text) ==
    LET parsed == ParseI32(Trim(text)) IN IsSome(parsed) /\ Unwrap(parsed) > 0

\* the amount texts that are not positive integers
InvalidTexts == {text \in AmountTexts : ~PositiveInteger(text)}

\* nothing but the status message changes
OnlyStatusChanges ==
    /\ UNCHANGED <<storeVars, uiVars, action_bind, task, histVars>>
    /\ status'.kind = "Error"

\* C6: a send_gold or send_cera whose amount text is not a positive integer,
\* and a send_gold without a selected character or without a session, is
\* rejected before any store call: no operation is spawned, no store or
\* launcher state changes, only the status message is set.
C6_RejectedBeforeStore ==
    [][/\ \A text \in InvalidTexts :
             (SendGold(text) \/ SendCera(text)) => OnlyStatusChanges
       /\ (~IsSome(selected_char) \/ ~IsSome(current_session))
             => \A text \in AmountTexts : SendGold(text) => OnlyStatusChanges]_vars

\* a send was rejected for its amount, nothing is in flight
C6_Witness ==
    /\ screen = "Dashboard"
    /\ status = Status_error("Wrong value!")
    /\ action_bind = "Idle"
    /\ task["launcher"] = NoTask
    /\ calls["launcher"] = <<>>
    /\ sent = [cera |-> [u \in UIDs |-> 0], gold |-> [c \in CharNos |-> 0]]

\* C7: a send_gold whose UPDATE matched no inventory row ends in an error.
C7_ZeroRowsIsError ==
    \A a \in Actors :
       (/\ task[a].kind = "gold"
        /\ task[a].pc = "done"
        /\ task[a].rows_affected = Some(0))
       => ~Unwrap(task[a].result).ok

\* a step of one of the five requests
Request ==
    \/ \E remember \in BOOLEAN : Login(remember)
    \/ CreateAccount
    \/ Refresh
    \/ \E text \in AmountTexts : SendGold(text) \/ SendCera(text)

\* the pending operation and the stores are as they were
PendingUntouched ==
    UNCHANGED <<storeVars, uiVars, action_bind, task, histVars>>

\* C8 as stated: at most one operation is in flight, and every request made
\* while one is pending is rejected with "Operation in progress" and leaves
\* the pending operation and the stores as they were.
C8_AlwaysOperationInProgress ==
    [][/\ inflight' <= 1
       /\ (action_bind = "Pending" /\ Request)
          => /\ status' = Status_error("Operation in progress")
             /\ PendingUntouched]_vars

\* C8: at most one operation is in flight; a request made while one is
\* pending is rejected and leaves the pending operation and the stores as
\* they were.  The message is "Operation in progress", except for a
\* send_gold or send_cera that fails its own validation first, which is
\* rejected with the message of that validation.
C8_OneInFlight ==
    [][/\ inflight' <= 1
       /\ (action_bind = "Pending" /\ Request)
          => /\ PendingUntouched
             /\ status'.kind = "Error"
             /\ \/ status'.message = "Operation in progress"
                \/ /\ status'.message \in {"Wrong value!", "No session",
                                           "Select a character"}
                   /\ \E text \in AmountTexts : SendGold(text) \/ SendCera(text)]_vars

\* a request was turned away while an operation is pending
C8_Witness ==
    /\ action_bind = "Pending"
    /\ status = Status_error("Operation in progress")
    /\ task["launcher"].kind # "none"
    /\ inflight = 1

\* inventory.money before any send
InitMoney(c) == IF c = 1 THEN 5 ELSE 0

\* C9: the credits whose statement succeeded stay in the store through
\* everything that follows (a restart, a failed refresh): every inventory
\* row holds its first money plus the gold sent to it, every cash_cera row
\* the cera sent to it, and the session shown is never ahead of the store.
C9_CreditStays ==
    /\ \A c \in CharNos :
          HasRow(inventory, c) => inventory[c] = Some(InitMoney(c) + sent.gold[c])
    /\ \A uid \in UIDs :
          sent.cera[uid] > 0 => cash_cera[uid] = Some(sent.cera[uid])
    /\ IsSome(current_session) =>
          Unwrap(current_session).cera
             <= CeraOf(cash_cera, Unwrap(current_session).uid)

\* cera was credited, the refresh then failed: the store has it, the session
\* shown does not
C9_Witness ==
    /\ action_bind = "Idle"
    /\ status = Status_error("store error")
    /\ IsSome(current_session)
    /\ sent.cera[1] > 0
    /\ cash_cera[1] = Some(sent.cera[1])
    /\ Unwrap(current_session).cera < sent.cera[1]

RECURSIVE SumOf(_, _)
SumOf(f, keys) ==
    IF keys = {} THEN 0
    ELSE LET k == CHOOSE x \in keys : TRUE IN f[k] + SumOf(f, keys \ {k})

\* C10: no store call is retried.  Within one operation every statement is
\* issued at most once, a failed statement is the last one and the
\* operation returns an error; so the credits applied are at most one per
\* send started (every amount sent here is 1).
C10_NoRetry ==
    /\ \A a \in Actors :
          /\ \A i, j \in DOMAIN calls[a] :
                i # j => calls[a][i].stmt # calls[a][j].stmt
          /\ \A i \in DOMAIN calls[a] :
                ~calls[a][i].ok =>
                   /\ i = Len(calls[a])
                   /\ task[a].pc = "done"
                   /\ ~Unwrap(task[a].result).ok
    /\ SumOf(sent.gold, CharNos) + SumOf(sent.cera, UIDs) <= nsends

\* a send_gold has credited once and its refresh has then failed at the
\* character read
C10_Witness ==
    /\ task["launcher"].kind = "gold"
    /\ task["launcher"].pc = "done"
    /\ Issued("launcher", "update_inventory", TRUE)
    /\ Issued("launcher", "select_characters", FALSE)
    /\ sent.gold[1] = 1
    /\ inventory[1] = Some(InitMoney(1) + 1)


\* the statements of create_account that write
WritingStmts ==
    {"insert_accounts", "insert_limit_create_character", "insert_member_info",
     "insert_member_white_account", "commit", "insert_member_login"}

\* C11: a create_account for a username that already has an accounts row
\* (one it has not committed itself) issues no writing statement, so the
\* account store and the login store stay as they are, and once its SELECT
\* has run it has returned "Account name already exists!".
C11_ExistingNameNoWrite ==
    \A a \in Actors :
       (/\ task[a].kind = "create"
        /\ SelectAccount(d_taiwan.accounts, task[a].username) # {}
        /\ ~Issued(a, "commit", TRUE))
       => /\ \A i \in DOMAIN calls[a] : calls[a][i].stmt \notin WritingStmts
          /\ task[a].pc = "done" => ~Unwrap(task[a].result).ok
          /\ Issued(a, "select_existing", TRUE)
               => /\ task[a].pc = "done"
                  /\ Unwrap(task[a].result) = Err("Account name already exists!")

\* a create_account for "alice" has been refused; alice's row is the only one
C11_Witness ==
    /\ task["launcher"].kind = "create"
    /\ task["launcher"].username = "alice"
    /\ task["launcher"].pc = "done"
    /\ Unwrap(task["launcher"].result) = Err("Account name already exists!")
    /\ AccountUids = {1}
    /\ member_login = {1}

\* the position of `stmt` in actor a's call log, 0 if it was not issued
IndexOf(a, stmt) ==
    IF \E i \in DOMAIN calls[a] : calls[a][i].stmt = stmt
    THEN CHOOSE i \in DOMAIN calls[a] : calls[a][i].stmt = stmt
    ELSE 0

\* C12: create_account turns to the login store only after its transaction
\* has committed, and when the login-store connection or INSERT then fails
\* the account stays: the accounts row of the username and its three
\* dependent rows exist.
C12_AppendAfterCommit ==
    \A a \in Actors :
       task[a].kind = "create" =>
          /\ IndexOf(a, "conn_login") > 0 =>
                /\ Issued(a, "commit", TRUE)
                /\ IndexOf(a, "commit") < IndexOf(a, "conn_login")
          /\ (Issued(a, "conn_login", FALSE) \/ Issued(a, "insert_member_login", FALSE))
             => /\ \E r \in d_taiwan.accounts :
                      r.accountname = task[a].username /\ r.uid = task[a].uid
                /\ task[a].uid \in d_taiwan.limit_create_character
                /\ task[a].uid \in d_taiwan.member_info
                /\ task[a].uid \in d_taiwan.member_white_account

\* bob's account was committed, the INSERT INTO member_login failed
C12_Witness ==
    /\ task["launcher"].kind = "create"
    /\ task["launcher"].username = "bob"
    /\ task["launcher"].pc = "done"
    /\ Issued("launcher", "commit", TRUE)
    /\ Issued("launcher", "insert_member_login", FALSE)
    /\ task["launcher"].uid \in AccountUids
    /\ task["launcher"].uid \notin member_login


\* actor a's operation runs perform_login, first or after its credit
CallsLogin(a) == task[a].kind \in {"login", "refresh", "gold", "cera"}

\* C13: a perform_login that returns a session returns the uid stored for
\* its username, under a hash that is the digest of its password, with the
\* cera balance and the roster the stores hold for that uid; and for a
\* username and password matching a stored account the only ways not to get
\* a session are a store error and the token's encoding error.
C13_SessionOfStoredUid ==
    \A a \in Actors :
       (CallsLogin(a) /\ task[a].pc = "done") =>
          LET t      == task[a]
              result == Unwrap(t.result)
              rows   == SelectAccount(d_taiwan.accounts, t.username)
          IN /\ result.ok =>
                  LET session == result.action.session
                  IN /\ \E r \in rows :
                          /\ r.uid = session.uid
                          /\ r.password = LowerHex(Md5Digest(t.password))
                     /\ session.cera = CeraOf(cash_cera, session.uid)
                     /\ session.characters =
                           SelectCharacters(charac_info, inventory, session.uid)
             /\ ((\E r \in rows : r.password = LowerHex(Md5Digest(t.password)))
                  /\ ~result.ok)
                => result.message \in {"store error", "Odd number of digits"}

\* alice's refresh after a cera credit returned her session: uid 1, cera 1,
\* her two characters
C13_Witness ==
    /\ task["launcher"].kind = "cera"
    /\ task["launcher"].pc = "done"
    /\ Unwrap(task["launcher"].result).ok
    /\ Unwrap(task["launcher"].result).action.session.uid = 1
    /\ Unwrap(task["launcher"].result).action.session.cera = 1
    /\ Len(Unwrap(task["launcher"].result).action.session.characters) = 2


\* C14: a perform_login for a username without an accounts row ends as an
\* error result: it never gets past the lookup, returns no session, and once
\* the lookup has run the error is "User not found"; the launcher is alive
\* and shows the error.
C14_AbsentAccountIsError ==
    /\ Alive
    /\ \A a \in Actors :
          (RunsLogin(a) /\ StoredHashes(task[a].username) = {})
          => /\ task[a].pc \in {"login_main", "done"}
             /\ task[a].pc = "done" =>
                  /\ ~Unwrap(task[a].result).ok
                  /\ Issued(a, "select_account", TRUE)
                       => Unwrap(task[a].result) = Err("User not found")

\* the launcher has taken the result of a sign-in to "bob" and shows it
C14_Witness ==
    /\ screen = "Login"
    /\ creds.username = "bob"
    /\ status = Status_error("User not found")
    /\ action_bind = "Idle"
    /\ current_session = None


\* the sessions in sight: the one the launcher holds and the one its
\* finished operation returns
SessionsInSight ==
    (IF IsSome(current_session) THEN {Unwrap(current_session)} ELSE {})
    \cup (IF /\ CallsLogin("launcher")
             /\ task["launcher"].pc = "done"
             /\ Unwrap(task["launcher"].result).ok
          THEN {Unwrap(task["launcher"].result).action.session}
          ELSE {})

C16_TokenTotal ==
    \A a \in Actors :
       (/\ CallsLogin(a)
        /\ task[a].pc = "done"
        /\ Issued(a, "select_characters", TRUE))
       => Unwrap(task[a].result).ok


\* C17: whatever the interleaving of two create_account calls for one unused
\* username, at most one accounts row with that username exists, and at most
\* one of the two calls commits.
C17_OneRowPerUsername ==
    /\ \A username \in Usernames :
          Cardinality(SelectAccount(d_taiwan.accounts, username)) <= 1
    /\ (/\ task["launcher"].kind = "create"
        /\ task["peer"].kind = "create"
        /\ task["launcher"].username = task["peer"].username)
       => ~(Issued("launcher", "commit", TRUE) /\ Issued("peer", "commit", TRUE))


\* actor a's credit statement succeeds in this step
Credits(a, pc) == task[a].pc = pc /\ task'[a].pc = "login_main"

\* C18: the step in which the statement of send_cera(uid, amount) succeeds
\* sets the balance of uid to amount when it has no row and to old + amount
\* when it has one, and changes no other balance and no money; the step in
\* which the statement of send_gold(char_id, amount) succeeds adds amount to
\* the money of char_id's inventory row (a character without a row stays
\* without one) and changes no other money and no balance.
C18_CreditFrame ==
    [][\A a \in Actors :
          /\ Credits(a, "cera_upsert") =>
                /\ cash_cera'[task[a].uid_arg] =
                      Some(CeraOf(cash_cera, task[a].uid_arg) + task[a].amount)
                /\ \A uid \in UIDs \ {task[a].uid_arg} :
                      cash_cera'[uid] = cash_cera[uid]
                /\ UNCHANGED <<inventory, d_taiwan, charac_info, member_login>>
          /\ Credits(a, "gold_update") =>
                /\ inventory'[task[a].char_id] =
                      IF HasRow(inventory, task[a].char_id)
                      THEN Some(Unwrap(inventory[task[a].char_id]) + task[a].amount)
                      ELSE None
                /\ \A c \in CharNos \ {task[a].char_id} :
                      inventory'[c] = inventory[c]
                /\ UNCHANGED <<cash_cera, d_taiwan, charac_info, member_login>>]_vars

\* cera was sent twice, 1 and 2 in some order: the first credit made
\* alice's row, the second added to it; every other row is as it was
C18_Witness ==
    /\ cash_cera[1] = Some(3)
    /\ sent.cera[1] = 3
    /\ \A uid \in UIDs \ {1} : cash_cera[uid] = None
    /\ inventory[1] = Some(5)
    /\ inventory[2] = None
    /\ inventory[3] = Some(0)
    /\ inventory[4] = Some(0)


\* C19: the roster of every session returned holds, once each, exactly the
\* characters of charac_info whose m_id is the session's uid and whose
\* delete_flag is 0, each with the money of its inventory row, and with 0
\* when it has no inventory row.
C19_RosterExact ==
    \A session \in SessionsInSight :
       LET roster == session.characters
           owned  == {c \in charac_info :
                         c.m_id = session.uid /\ c.delete_flag = 0}
       IN /\ {roster[i].id : i \in DOMAIN roster} = {c.charac_no : c \in owned}
          /\ Len(roster) = Cardinality(owned)
          /\ \A i \in DOMAIN roster :
                /\ \E c \in owned :
                      /\ c.charac_no = roster[i].id
                      /\ c.charac_name = roster[i].name
                      /\ c.lev = roster[i].level
                /\ roster[i].money =
                      IF inventory[roster[i].id] = None THEN 0
                      ELSE inventory[roster[i].id][1]

\* the session of uid 1 is held: Bob with his 5, Carol, who has no
\* inventory row, with 0; not Dave (deleted), not Eve (of uid 2)
C19_Witness ==
    /\ IsSome(current_session)
    /\ Unwrap(current_session).uid = 1
    /\ Len(Unwrap(current_session).characters) = 2
    /\ Unwrap(current_session).characters[1].name = "Bob"
    /\ Unwrap(current_session).characters[1].money = 5
    /\ Unwrap(current_session).characters[2].name = "Carol"
    /\ Unwrap(current_session).characters[2].money = 0
    /\ inventory[2] = None


\* C20: in perform_login an account without a cash_cera row is no error:
\* after the balance read the operation goes on to the character read with
\* cera = 0, and the session it returns has cera = 0.
C20_NoCeraRowIsZero ==
    \A a \in Actors :
       (/\ CallsLogin(a)
        /\ Issued(a, "select_cera", TRUE)
        /\ cash_cera[task[a].uid] = None)
       => /\ task[a].cera = 0
          /\ \/ task[a].pc = "login_chara"
             \/ Issued(a, "conn_chara", TRUE)
             \/ Issued(a, "conn_chara", FALSE)
          /\ (task[a].pc = "done" /\ Unwrap(task[a].result).ok)
                => Unwrap(task[a].result).action.session.cera = 0

\* alice, who has no cash_cera row, is signed in: her session shows cera 0
C20_Witness ==
    /\ screen = "Dashboard"
    /\ status = Status_success("Login successful")
    /\ IsSome(current_session)
    /\ Unwrap(current_session).uid = 1
    /\ Unwrap(current_session).cera = 0
    /\ cash_cera[1] = None


\* C21: an operation that has ended, with Ok or with Err, holds no open
\* connection and no open transaction; so does an actor without an
\* operation.
C21_ConnectionsReleased ==
    \A a \in Actors :
       task[a].pc \in {"done", "idle"} =>
          /\ task[a].conns = {}
          /\ task[a].tx = None

\* a perform_login has ended with an error at the character read, after it
\* had opened the Main and the Billing connection
C21_Witness ==
    /\ task["launcher"].kind = "login"
    /\ task["launcher"].pc = "done"
    /\ ~Unwrap(task["launcher"].result).ok
    /\ Issued("launcher", "conn_main", TRUE)
    /\ Issued("launcher", "conn_billing", TRUE)
    /\ Issued("launcher", "select_characters", FALSE)
    /\ task["launcher"].conns = {}


LowerHexChars ==
    {"0", "1", "2", "3", "4", "5", "6", "7", "8", "9", "a", "b", "c", "d", "e", "f"}

\* C22: round trip of create_account and perform_login.  The accounts row
\* that create_account committed for (username, password) holds, as its
\* hash, the lowercase hex digits of the MD5 digest of that password, two
\* per byte.  A perform_login for that username whose password has the same
\* digest is not rejected by the password check once it has read the row
\* (it does not end in "Invalid password" or "User not found"), and one whose
\* password has a different digest never gets past the check and ends in an
\* error, which is "Invalid password" once the row has been read.
C22_RoundTrip ==
    \A a \in Actors :
       LET t == task[a]
       IN RunsLogin(a) =>
          \A r \in SelectAccount(d_taiwan.accounts, t.username) :
             /\ r.password = LowerHex(Md5Digest(r.qq))
             /\ Len(r.password) = 2 * Len(Md5Digest(r.qq))
             /\ \A i \in DOMAIN r.password : r.password[i] \in LowerHexChars
             /\ (Md5Digest(t.password) = Md5Digest(r.qq)
                   /\ Issued(a, "select_account", TRUE)
                   /\ t.pc = "done" /\ ~Unwrap(t.result).ok)
                => Unwrap(t.result).message \notin {"Invalid password", "User not found"}
             /\ Md5Digest(t.password) # Md5Digest(r.qq)
                => /\ t.pc \in {"login_main", "done"}
                   /\ t.pc = "done" =>
                        /\ ~Unwrap(t.result).ok
                        /\ Issued(a, "select_account", TRUE)
                             => Unwrap(t.result).message = "Invalid password"

\* bob's account was created with "pw2" in this run, and a sign-in as bob
\* with "pw2" has passed the password check
C22_Witness ==
    /\ \E r \in d_taiwan.accounts :
          r.accountname = "bob" /\ r.qq = "pw2" /\ r.uid \in member_login
    /\ task["launcher"].kind = "login"
    /\ task["launcher"].username = "bob"
    /\ task["launcher"].password = "pw2"
    /\ task["launcher"].pc = "login_billing"


\* C23: in every reachable launcher state selected_char, when set, is an
\* index into the roster of the current session, and send_gold has never
\* indexed the roster out of bounds.
C23_SelectedCharValid ==
    /\ Alive
    /\ IsSome(selected_char) =>
          /\ IsSome(current_session)
          /\ Unwrap(selected_char) < Len(Unwrap(current_session).characters)


\* C24: the credentials in config.json are ones that authenticate (the
\* password's digest is the stored hash of the username's account), and
\* whenever the dashboard is shown the uid of the current session is the uid
\* of the account that the stored credentials name.
C24_CredentialsConsistent ==
    /\ IsSome(config_json) =>
          hash_password(Unwrap(config_json).password)
             \in StoredHashes(Unwrap(config_json).username)
    /\ (screen = "Dashboard" /\ IsSome(current_session)) =>
          \E r \in SelectAccount(d_taiwan.accounts, creds.username) :
             r.uid = Unwrap(current_session).uid


\* C25: in every reachable launcher state in which the dashboard is shown,
\* current_session is present and carries a token; so launch_game and the
\* send forms, which run from the dashboard, have a session.
C25_DashboardHasSession ==
    screen = "Dashboard" =>
       /\ IsSome(current_session)
       /\ Unwrap(current_session).token # <<>>

\* the game has been launched from the dashboard after a send was requested
C25_Witness ==
    /\ screen = "Dashboard"
    /\ IsSome(current_session)
    /\ status = Status_success("Launching Game...")
    /\ nsends > 0


\* C26: the step that takes the result of an in-flight operation which ended
\* in an error sets the status to that error and changes nothing else of the
\* launcher: screen, current_session, selected_char, the credentials, the
\* config and config.json stay as they are; and it leaves the bind idle, so
\* that spawn_action accepts the next operation.
C26_ErrorChangesStatusOnly ==
    [][ (/\ is_pending(action_bind)
         /\ task["launcher"].pc = "done"
         /\ ~Unwrap(task["launcher"].result).ok
         /\ action_bind' # action_bind)
        => /\ status' = Status_error(Unwrap(task["launcher"].result).message)
           /\ UNCHANGED <<screen, current_session, selected_char, creds,
                          config, config_json>>
           /\ ~is_pending(action_bind') ]_vars

\* the error of an operation requested from the dashboard has been applied:
\* the dashboard, its session and the selection are still there
C26_Witness ==
    /\ status = Status_error("store error")
    /\ ~is_pending(action_bind)
    /\ screen = "Dashboard"
    /\ IsSome(current_session)
    /\ IsSome(selected_char)

=============================================================================
